---- MODULE Spec2Model ----
(***************************************************************************)
(* A model of dt-mergebot's PR state derivation (src/src/pr-info.ts).      *)
(*                                                                         *)
(* Spec          deriveStateForPR: precondition checks, concurrent file    *)
(*               classification (Promise.all over categorizeFile), the     *)
(*               sequential owner resolution and the returned Result.      *)
(* SpecReviews   analyzeReviews over bounded review logs.                  *)
(* SpecDanger    getDangerLevel over bounded lists of classified files.    *)
(* SpecPop       getPopularityLevel / getPopularityLevelFromDownloads.     *)
(* SpecStale     the date extraction and stalenessInDays of                *)
(*               deriveStateForPR.                                         *)
(* SpecCI        getCIResult over bounded lists of check suites.           *)
(***************************************************************************)
EXTENDS Integers, Sequences, FiniteSets, TLC

VARIABLES
    pr,               \* the raw snapshot (info.data.repository.pullRequest)
    pc,               \* position of deriveStateForPR
    responses,        \* fetchFile's answer for every content fetch issued
    pending,          \* indices of files whose content fetch is in flight
    settled,          \* per file index: the state of its categorizeFile promise
    fetchLog,         \* every fetchFile call issued, in order
    categorizedFiles, \* the fulfilled value of Promise.all
    packages,         \* getPackagesTouched(categorizedFiles)
    ownerIdx,         \* getOwnersOfPackages: index of the next package
    headerResp,       \* fetch + parse outcome of every header fetched so far
    allOwners,        \* getOwnersOfPackages: the Set allOwners, insertion order
    anyPackageIsNew,  \* getOwnersOfPackages: anyPackageIsNew
    error,            \* getOwnersOfPackages: error (<<>> is undefined)
    downloads,        \* per-package monthly download counts (popularity input)
    now,              \* getNow()
    result            \* what deriveStateForPR (or the function applied) produced

vars == <<pr, pc, responses, pending, settled, fetchLog, categorizedFiles,
          packages, ownerIdx, headerResp, allOwners, anyPackageIsNew, error,
          downloads, now, result>>

(***************************************************************************)
(* Bounds                                                                  *)
(***************************************************************************)
MaxFiles == 3
MaxReviews == 3
MaxPackages == 3
MaxTimeline == 2
MaxDatedReviews == 1
MaxSuites == 2

Null == "null"

RECURSIVE SeqsUpTo(_, _)
SeqsUpTo(S, n) == IF n = 0 THEN {<<>>}
                  ELSE SeqsUpTo(S, n - 1) \cup [1..n -> S]

Range(s) == {s[i] : i \in 1..Len(s)}

Last(s) == s[Len(s)]

(***************************************************************************)
(* Paths are sequences of their "/"-separated segments.                    *)
(***************************************************************************)
Paths ==
    { <<"types", "foo", "index.d.ts">>,
      <<"types", "bar", "bar-tests.ts">>,
      <<"types", "baz", "README.md">>,
      <<"types", "foo", "tslint.json">>,
      <<"types", "bar", "tslint.json">>,
      <<"types", "foo", "OTHER_FILES.txt">>,
      <<"types", "foo", "package.json">>,
      <<"README.md">> }

\* path.replace(/.*\//, "")
Basename(path) == Last(path)

\* The optional capture group (?:\.(d\.ts|tsx?|md))? of the path pattern, on
\* the basenames of Paths; "" when the group does not take part in the match.
Suffix(basename) ==
    CASE basename = "index.d.ts"   -> "d.ts"
      [] basename = "bar-tests.ts" -> "ts"
      [] basename = "README.md"    -> "md"
      [] OTHER                     -> ""

\* /^types\/(.*?)\/.*?[^\/](?:\.(d\.ts|tsx?|md))?$/ matches exactly the paths
\* that start with "types/", have a further "/" and do not end in "/".
PathMatches(path) ==
    /\ Len(path) >= 3
    /\ path[1] = "types"
    /\ Last(path) # ""

\* match[1]: the lazy first group stops at the first "/".
PathPackage(path) == path[2]

(***************************************************************************)
(* File contents.  Absent is fetchFile's undefined.                        *)
(***************************************************************************)
Absent == "<absent>"

CanonicalText == "{ \"extends\": \"dtslint/dt.json\" }"
CompactText   == "{\"extends\":\"dtslint/dt.json\"}"
ExtendedText  == "{ \"extends\": \"dtslint/dt.json\", \"rules\": {} }"
BrokenText    == "{ \"extends\": "
EmptyText     == ""
GoodList      == "a/b.d.ts\nc.d.ts\n"
DotsList      == "../b.d.ts"

Texts == { CanonicalText, CompactText, ExtendedText, BrokenText, EmptyText,
           GoodList, DotsList }

Contents == Texts \cup {Absent}

\* JSON.parse on Texts: [threw, value, message]; a value is its list of
\* key/value members.
JSONParse(text) ==
    CASE text = CanonicalText ->
            [threw |-> FALSE, value |-> <<<<"extends", "dtslint/dt.json">>>>, message |-> ""]
      [] text = CompactText ->
            [threw |-> FALSE, value |-> <<<<"extends", "dtslint/dt.json">>>>, message |-> ""]
      [] text = ExtendedText ->
            [threw |-> FALSE,
             value |-> <<<<"extends", "dtslint/dt.json">>, <<"rules", "{}">>>>,
             message |-> ""]
      [] text = BrokenText ->
            [threw |-> TRUE, value |-> <<>>, message |-> "Unexpected end of JSON input"]
      [] text = EmptyText ->
            [threw |-> TRUE, value |-> <<>>, message |-> "Unexpected end of JSON input"]
      [] text = GoodList ->
            [threw |-> TRUE, value |-> <<>>,
             message |-> "Unexpected token a in JSON at position 0"]
      [] OTHER ->
            [threw |-> TRUE, value |-> <<>>,
             message |-> "Unexpected token . in JSON at position 0"]

\* JSON.stringify of a parsed object: members in order, no white space.
RECURSIVE JSONMembers(_)
JSONMembers(value) ==
    IF value = <<>> THEN ""
    ELSE LET m == value[1]
             v == IF m[2] = "{}" THEN "{}" ELSE "\"" \o m[2] \o "\""
             rest == JSONMembers(Tail(value))
         IN  "\"" \o m[1] \o "\":" \o v \o (IF rest = "" THEN "" ELSE "," \o rest)

JSONStringify(value) == "{" \o JSONMembers(value) \o "}"

\* contents.split(/\n/) on Texts
SplitLines(text) ==
    CASE text = GoodList -> <<"a/b.d.ts", "c.d.ts", "">>
      [] OTHER           -> <<text>>

\* line.split(/\//) on the lines of Texts
SplitParts(line) ==
    CASE line = "a/b.d.ts"    -> <<"a", "b.d.ts">>
      [] line = "../b.d.ts"   -> <<"..", "b.d.ts">>
      [] line = CanonicalText -> <<"{ \"extends\": \"dtslint", "dt.json\" }">>
      [] line = CompactText   -> <<"{\"extends\":\"dtslint", "dt.json\"}">>
      [] line = ExtendedText  -> <<"{ \"extends\": \"dtslint", "dt.json\", \"rules\": {} }">>
      [] OTHER                -> <<line>>

\* part.match(/^\.+$/) on the parts of Texts
AllDots(part) == part \in {".", "..", "..."}

(***************************************************************************)
(* categorizeFile / configOK                                               *)
(***************************************************************************)
\* The validators registered on configOK; each yields [threw, ok, message].
Returned(b) == [threw |-> FALSE, ok |-> b, message |-> ""]

Threw(msg) == [threw |-> TRUE, ok |-> FALSE, message |-> msg]

\* configOK["OTHER_FILES.txt"]
OtherFilesOK(contents) ==
    Returned(/\ Len(contents) > 0
             /\ \A i \in 1..Len(SplitLines(contents)) :
                   LET line == SplitLines(contents)[i]
                   IN  \/ line = ""
                       \/ \A j \in 1..Len(SplitParts(line)) :
                             LET part == SplitParts(line)[j]
                             IN  Len(part) > 0 /\ ~AllDots(part))

\* configOK["tslint.json"]
TslintOK(contents) ==
    LET parsed == JSONParse(contents)
    IN  IF parsed.threw THEN Threw(parsed.message)
        ELSE Returned(JSONStringify(parsed.value)
                        = JSONStringify(<<<<"extends", "dtslint/dt.json">>>>))

\* basename in configOK
Registered(basename) == basename \in {"OTHER_FILES.txt", "tslint.json"}

\* configOK[basename](text)
Validate(basename, text) ==
    IF basename = "tslint.json" THEN TslintOK(text) ELSE OtherFilesOK(text)

\* categorizeFile reaches configOK's `await getContents()` for these paths.
NeedsContents(path) ==
    /\ PathMatches(path)
    /\ Suffix(Basename(path)) = ""
    /\ Registered(Basename(path))

FileInfo(path, kind, package) == [path |-> path, kind |-> kind, package |-> package]

\* configOK once getContents() has answered: [threw, ok, message]
ConfigOK(path, text) ==
    IF ~Registered(Basename(path)) THEN Returned(FALSE)
    ELSE IF text = Absent THEN Returned(FALSE)
    ELSE Validate(Basename(path), text)

\* categorizeFile, given what the contents accessor answers when it is called:
\* [threw, info, message]
CategorizeFile(path, text) ==
    IF ~PathMatches(path)
    THEN [threw |-> FALSE, info |-> FileInfo(path, "infrastructure", Null), message |-> ""]
    ELSE LET pkg == PathPackage(path)
             suffix == Suffix(Basename(path))
         IN  CASE suffix = "d.ts" ->
                    [threw |-> FALSE, info |-> FileInfo(path, "definition", pkg), message |-> ""]
               [] suffix \in {"ts", "tsx"} ->
                    [threw |-> FALSE, info |-> FileInfo(path, "test", pkg), message |-> ""]
               [] suffix = "md" ->
                    [threw |-> FALSE, info |-> FileInfo(path, "markdown", pkg), message |-> ""]
               [] OTHER ->
                    LET ok == ConfigOK(path, text)
                    IN  IF ok.threw
                        THEN [threw |-> TRUE, info |-> FileInfo(path, "", Null),
                              message |-> ok.message]
                        ELSE [threw |-> FALSE,
                              info |-> FileInfo(path,
                                         IF ok.ok THEN "package-meta-ok" ELSE "package-meta",
                                         pkg),
                              message |-> ""]

\* [...new Set(noNulls(files.map(f => f.package)))]: first occurrences, in order
RECURSIVE Dedup(_, _)
Dedup(s, seen) ==
    IF s = <<>> THEN <<>>
    ELSE IF s[1] \in seen THEN Dedup(Tail(s), seen)
    ELSE <<s[1]>> \o Dedup(Tail(s), seen \cup {s[1]})

getPackagesTouched(files) ==
    Dedup(SelectSeq([i \in 1..Len(files) |-> files[i].package], LAMBDA p : p # Null), {})

getDangerLevel_MetaOkCounts(files) ==
    IF \E i \in 1..Len(files) : files[i].kind = "infrastructure" THEN "Infrastructure"
    ELSE LET packagesTouched == getPackagesTouched(files)
         IN  IF Len(packagesTouched) = 0 THEN "Infrastructure"
             ELSE IF Len(packagesTouched) > 1 THEN "MultiplePackagesEdited"
             ELSE IF \E i \in 1..Len(files) :
                        files[i].kind \in {"package-meta", "package-meta-ok"}
                  THEN "ScopedAndConfiguration"
             ELSE IF \E i \in 1..Len(files) : files[i].kind = "test"
                  THEN "ScopedAndTested"
             ELSE "ScopedAndUntested"

\* getDangerLevel
getDangerLevel(files) ==
    IF \E i \in 1..Len(files) : files[i].kind = "infrastructure" THEN "Infrastructure"
    ELSE LET packagesTouched == getPackagesTouched(files)
         IN  IF Len(packagesTouched) = 0 THEN "Infrastructure"
             ELSE IF Len(packagesTouched) > 1 THEN "MultiplePackagesEdited"
             ELSE IF \E i \in 1..Len(files) : files[i].kind = "package-meta"
                  THEN "ScopedAndConfiguration"
             ELSE IF \E i \in 1..Len(files) : files[i].kind = "test"
                  THEN "ScopedAndTested"
             ELSE "ScopedAndUntested"

(***************************************************************************)
(* Owner headers: what fetchFile("master:types/<p>/index.d.ts", 10240)     *)
(* followed by HeaderParser.parseHeaderOrFail gives for a package.         *)
(* A contributor without githubUsername is Null.                           *)
(***************************************************************************)
HeaderAbsent == [kind |-> "absent", contributors |-> <<>>, message |-> ""]

HeaderBroken(msg) == [kind |-> "throws", contributors |-> <<>>, message |-> msg]

HeaderParsed(cs) == [kind |-> "parsed", contributors |-> cs, message |-> ""]

HeaderResponses ==
    { HeaderAbsent,
      HeaderBroken("Could not parse version"),
      HeaderParsed(<<"Bob", Null>>),
      HeaderParsed(<<"carol", "Bob">>) }

\* getOwnersForPackage: [threw, owners, message]; owners is <<>> for undefined
\* and <<list>> otherwise.
getOwnersForPackage(resp) ==
    CASE resp.kind = "absent" -> [threw |-> FALSE, owners |-> <<>>, message |-> ""]
      [] resp.kind = "throws" -> [threw |-> TRUE, owners |-> <<>>, message |-> resp.message]
      [] OTHER -> [threw |-> FALSE,
                   owners |-> <<SelectSeq(resp.contributors, LAMBDA c : c # Null)>>,
                   message |-> ""]

\* String.prototype.toLowerCase on the logins of the model
ToLowerCase(login) ==
    CASE login = "Bob"   -> "bob"
      [] login = "Carol" -> "carol"
      [] login = "Alice" -> "alice"
      [] OTHER           -> login

\* isOwner (closure over allOwners)
isOwner(owners, login) ==
    \E i \in 1..Len(owners) : ToLowerCase(owners[i]) = ToLowerCase(login)

(***************************************************************************)
(* Result variants.  A rejection of the promise deriveStateForPR returns   *)
(* is recorded as type "exception"; it is not a Result variant.            *)
(***************************************************************************)
authorLogin == IF pr.exists THEN pr.author ELSE Null

botFail(message) == [type |-> "fail", message |-> message]

botError(pr_number, message) ==
    [type |-> "error", message |-> message, pr_number |-> pr_number, author |-> authorLogin]

botEnsureRemovedFromProject(pr_number, message) ==
    [type |-> "remove", pr_number |-> pr_number, message |-> message]

botNoPackages(pr_number) == [type |-> "no_packages", pr_number |-> pr_number]

Rejected(message) == [type |-> "exception", message |-> message]

NoResult == [type |-> "none"]

\* getHeadCommit: the commits whose oid is headRefOid (the first one is used)
getHeadCommit(p) == SelectSeq(p.commits, LAMBDA c : c.oid = p.headRefOid)

(***************************************************************************)
(* deriveStateForPR                                                        *)
(***************************************************************************)
HeadOid == "0123456789abcdef"

HeadAbbrOid == "0123456"

Commit(oid, abbr, pushed) == [oid |-> oid, abbreviatedOid |-> abbr, pushedDate |-> pushed]

Snapshot(exists, author, commits, state, isDraft, files, reviews, timeline) ==
    [exists |-> exists, number |-> 42, author |-> author, headRefOid |-> HeadOid,
     commits |-> commits, state |-> state, isDraft |-> isDraft, files |-> files,
     reviews |-> reviews, timelineItems |-> timeline]

\* fetchFile(`${rev}:${path}`)
Fetch(rev, path) == <<rev, path>>

Unsettled == [status |-> "pending", info |-> FileInfo(<<>>, "", Null), message |-> ""]

\* The promise categorizeFile(path, ...) returns, given the contents answer.
Settle(path, text) ==
    LET c == CategorizeFile(path, text)
    IN  [status |-> IF c.threw THEN "rejected" ELSE "fulfilled",
         info |-> c.info, message |-> c.message]

OwnersLoopBody_NoBreak(acc, resp) ==
    LET o == getOwnersForPackage(resp)
    IN  IF o.threw
        THEN [acc EXCEPT !.error = <<"error parsing owners: " \o o.message>>]
        ELSE IF o.owners = <<>>
        THEN [acc EXCEPT !.anyPackageIsNew = TRUE]
        ELSE [acc EXCEPT !.allOwners = Dedup(acc.allOwners \o o.owners[1], {})]

OwnersLoopBody_AbsentBreaks(acc, resp) ==
    LET o == getOwnersForPackage(resp)
    IN  IF o.threw
        THEN [acc EXCEPT !.error = <<"error parsing owners: " \o o.message>>,
                         !.broke = TRUE]
        ELSE IF o.owners = <<>>
        THEN [acc EXCEPT !.anyPackageIsNew = TRUE, !.broke = TRUE]
        ELSE [acc EXCEPT !.allOwners = Dedup(acc.allOwners \o o.owners[1], {})]

\* One iteration of the loop of getOwnersOfPackages on the outcome `resp` for
\* the current package: the loop's variables afterwards, and whether it broke.
OwnersLoopBody(acc, resp) ==
    LET o == getOwnersForPackage(resp)
    IN  IF o.threw
        THEN [acc EXCEPT !.error = <<"error parsing owners: " \o o.message>>,
                         !.broke = TRUE]
        ELSE IF o.owners = <<>>
        THEN [acc EXCEPT !.anyPackageIsNew = TRUE]
        ELSE [acc EXCEPT !.allOwners = Dedup(acc.allOwners \o o.owners[1], {})]

\* The info Result, as far as files and owners decide it.  The fields that
\* reviews, timeline, CI and downloads decide are the operators analyzeReviews,
\* Staleness and getPopularityLevel below.
InfoResult ==
    [type |-> "info",
     pr_number |-> pr.number,
     author |-> pr.author,
     owners |-> allOwners,
     dangerLevel |-> getDangerLevel(categorizedFiles),
     authorIsOwner |-> isOwner(allOwners, pr.author),
     anyPackageIsNew |-> anyPackageIsNew,
     packages |-> packages,
     files |-> categorizedFiles]

Idle ==
    /\ responses = <<>>
    /\ pending = {}
    /\ settled = <<>>
    /\ fetchLog = <<>>
    /\ categorizedFiles = <<>>
    /\ packages = <<>>
    /\ ownerIdx = 1
    /\ headerResp = <<>>
    /\ allOwners = <<>>
    /\ anyPackageIsNew = FALSE
    /\ error = <<>>
    /\ result = NoResult

CommitLists ==
    { <<Commit("fedcba9876543210", "fedcba9", 0)>>,
      <<Commit("fedcba9876543210", "fedcba9", 0), Commit(HeadOid, HeadAbbrOid, 1)>> }

Init ==
    /\ pr \in { Snapshot(e, a, cs, s, d, f, <<>>, <<>>) :
                  e \in BOOLEAN, a \in {Null, "bob"}, cs \in CommitLists,
                  s \in {"OPEN", "CLOSED", "MERGED"}, d \in BOOLEAN,
                  f \in SeqsUpTo(Paths, MaxFiles) }
    /\ pc = "start"
    /\ downloads = <<>>
    /\ now = 0
    /\ Idle

\* Lines 208-221: the precondition checks, then the synchronous part of every
\* categorizeFile call, which issues the content fetches in file order.
Start ==
    /\ pc = "start"
    /\ UNCHANGED <<pr, categorizedFiles, packages, ownerIdx, headerResp, allOwners,
                   anyPackageIsNew, error, downloads, now>>
    /\ IF \/ ~pr.exists
          \/ pr.author = Null
          \/ getHeadCommit(pr) = <<>>
          \/ pr.state # "OPEN"
          \/ pr.isDraft
       THEN /\ result' =
                 IF ~pr.exists THEN botFail("No PR with this number exists")
                 ELSE IF pr.author = Null
                      THEN botError(pr.number, "PR author does not exist")
                 ELSE IF getHeadCommit(pr) = <<>>
                      THEN botError(pr.number, "No head commit found")
                 ELSE IF pr.state # "OPEN"
                      THEN botEnsureRemovedFromProject(pr.number, "PR is not active")
                 ELSE botEnsureRemovedFromProject(pr.number, "PR is a draft")
            /\ pc' = "done"
            /\ UNCHANGED <<responses, pending, settled, fetchLog>>
       ELSE LET n == Len(pr.files)
                need == {i \in 1..n : NeedsContents(pr.files[i])}
                rev == getHeadCommit(pr)[1].oid
            IN  /\ \E resp \in [{pr.files[i] : i \in need} -> Contents] :
                       responses' = resp
                /\ pending' = need
                /\ settled' = [i \in 1..n |->
                                 IF i \in need THEN Unsettled
                                 ELSE Settle(pr.files[i], Absent)]
                /\ fetchLog' = [k \in 1..Cardinality(need) |->
                                  LET i == CHOOSE j \in need :
                                             Cardinality({m \in need : m < j}) = k - 1
                                  IN  Fetch(rev, pr.files[i])]
                /\ pc' = "classify"
                /\ UNCHANGED result

\* A content fetch answers and its categorizeFile continues.  The first
\* rejection rejects Promise.all and with it deriveStateForPR; the other
\* fetches still answer, to no effect.
Complete(i) ==
    /\ i \in pending
    /\ pending' = pending \ {i}
    /\ LET s == Settle(pr.files[i], responses[pr.files[i]])
       IN  /\ settled' = [settled EXCEPT ![i] = s]
           /\ IF s.status = "rejected" /\ pc = "classify"
              THEN result' = Rejected(s.message) /\ pc' = "done"
              ELSE UNCHANGED <<result, pc>>
    /\ UNCHANGED <<pr, responses, fetchLog, categorizedFiles, packages, ownerIdx,
                   headerResp, allOwners, anyPackageIsNew, error, downloads, now>>

\* Lines 219-224: Promise.all fulfils with the FileInfos in file order.
AllSettled ==
    /\ pc = "classify"
    /\ pending = {}
    /\ LET files == [i \in 1..Len(pr.files) |-> settled[i].info]
           pk == getPackagesTouched(files)
       IN  /\ categorizedFiles' = files
           /\ packages' = pk
           /\ IF Len(pk) = 0
              THEN result' = botNoPackages(pr.number) /\ pc' = "done"
              ELSE result' = result /\ pc' = "owners"
    /\ UNCHANGED <<pr, responses, pending, settled, fetchLog, ownerIdx, headerResp,
                   allOwners, anyPackageIsNew, error, downloads, now>>

\* Lines 569-582: one iteration of getOwnersOfPackages, its fetch included.
FetchOwners ==
    /\ pc = "owners"
    /\ \E resp \in HeaderResponses :
          LET p == packages[ownerIdx]
              acc == OwnersLoopBody([allOwners |-> allOwners,
                                     anyPackageIsNew |-> anyPackageIsNew,
                                     error |-> error, broke |-> FALSE], resp)
          IN  /\ fetchLog' = Append(fetchLog, Fetch("master", <<"types", p, "index.d.ts">>))
              /\ headerResp' = Append(headerResp, resp)
              /\ allOwners' = acc.allOwners
              /\ anyPackageIsNew' = acc.anyPackageIsNew
              /\ error' = acc.error
              /\ ownerIdx' = ownerIdx + 1
              /\ pc' = IF acc.broke \/ ownerIdx = Len(packages) THEN "resolved" ELSE "owners"
    /\ UNCHANGED <<pr, responses, pending, settled, categorizedFiles, packages,
                   downloads, now, result>>

\* Lines 226-286: the error of owner resolution, or the info Result.
Assemble ==
    /\ pc = "resolved"
    /\ result' = IF error # <<>> THEN botError(pr.number, error[1]) ELSE InfoResult
    /\ pc' = "done"
    /\ UNCHANGED <<pr, responses, pending, settled, fetchLog, categorizedFiles, packages,
                   ownerIdx, headerResp, allOwners, anyPackageIsNew, error, downloads, now>>

Next ==
    \/ Start
    \/ \E i \in 1..MaxFiles : Complete(i)
    \/ AllSettled
    \/ FetchOwners
    \/ Assemble

Spec == Init /\ [][Next]_vars

(***************************************************************************)
(* Claims about deriveStateForPR (specification Spec)                      *)
(***************************************************************************)
PreconditionFails ==
    \/ ~pr.exists
    \/ pr.author = Null
    \/ getHeadCommit(pr) = <<>>
    \/ pr.state # "OPEN"
    \/ pr.isDraft

\* The packages of the snapshot's paths; a file's package is decided by its
\* path alone.
TouchedByPath == {PathPackage(pr.files[i]) : i \in {j \in 1..Len(pr.files) : PathMatches(pr.files[j])}}

HeaderThrows(k) == headerResp[k].kind = "throws"

HeaderFetches == SelectSeq(fetchLog, LAMBDA f : f[1] = "master")

\* The first outcome, in the documented order, whose condition holds.
FirstOutcome ==
    IF ~pr.exists THEN "fail"
    ELSE IF pr.author = Null THEN "error"
    ELSE IF getHeadCommit(pr) = <<>> THEN "error"
    ELSE IF pr.state # "OPEN" THEN "remove"
    ELSE IF pr.isDraft THEN "remove"
    ELSE IF TouchedByPath = {} THEN "no_packages"
    ELSE IF \E k \in 1..Len(headerResp) : HeaderThrows(k) THEN "error"
    ELSE "info"

\* C1: deriveStateForPR returns, for every snapshot, the first outcome in the
\* order fail, error (no author), error (no head commit), remove (not open),
\* remove (draft), no_packages, error (owner header), info whose condition
\* holds, and issues no fetch when one of the first five conditions holds.
C1_Precedence ==
    pc = "done" =>
        /\ result.type = FirstOutcome
        /\ PreconditionFails => fetchLog = <<>>

\* The part of C1 that the code keeps: a variant that is returned is the first
\* one whose condition holds, and no fetch precedes the first five.
C1_PrecedenceWhenReturned ==
    /\ pc = "done" /\ result.type # "exception" => result.type = FirstOutcome
    /\ PreconditionFails => fetchLog = <<>>
    /\ pc = "done" /\ pr.exists /\ pr.author = Null =>
          result = [type |-> "error", message |-> "PR author does not exist",
                    pr_number |-> pr.number, author |-> Null]

IsCanonicalObject(text) ==
    ~JSONParse(text).threw /\ JSONParse(text).value = <<<<"extends", "dtslint/dt.json">>>>

\* C2: a registered config file (tslint.json, OTHER_FILES.txt) is classified
\* package-meta-ok or package-meta whatever its fetched content, tslint.json
\* being package-meta-ok exactly for the canonical object, and deriveStateForPR
\* never ends in an exception.
C2_NeverRaises ==
    /\ result.type # "exception"
    /\ \A i \in DOMAIN settled :
          (NeedsContents(pr.files[i]) /\ settled[i].status # "pending") =>
              /\ settled[i].status = "fulfilled"
              /\ settled[i].info.kind \in {"package-meta-ok", "package-meta"}
              /\ Basename(pr.files[i]) = "tslint.json" =>
                    (settled[i].info.kind = "package-meta-ok"
                        <=> IsCanonicalObject(responses[pr.files[i]]))

\* C3: when the header of package k fails to parse, no header is fetched for a
\* later package, the fetches made are those of packages 1..k in order, and
\* deriveStateForPR returns the error Result with the parse message and
\* without the owners gathered so far.
C3_ShortCircuit ==
    \A k \in 1..Len(headerResp) :
        HeaderThrows(k) =>
            /\ k = Len(headerResp)
            /\ HeaderFetches = [j \in 1..k |->
                                  Fetch("master", <<"types", packages[j], "index.d.ts">>)]
            /\ pc \in {"resolved", "done"}
            /\ pc = "done" =>
                  result = [type |-> "error",
                            message |-> "error parsing owners: " \o headerResp[k].message,
                            pr_number |-> pr.number,
                            author |-> pr.author]

C3_Witness ==
    /\ pc = "done"
    /\ result.type = "error"
    /\ Len(headerResp) = 2
    /\ headerResp[1].kind = "parsed"
    /\ HeaderThrows(2)
    /\ Len(packages) = 3

\* The owners the parsed headers declare (a contributor without a GitHub
\* username declares none).
DeclaredOwners ==
    UNION { {c \in Range(headerResp[k].contributors) : c # Null} :
              k \in {j \in 1..Len(headerResp) : headerResp[j].kind = "parsed"} }

HeaderAbsentAt(k) == headerResp[k].kind = "absent"

\* C4: an absent header is not an error: resolution goes on to the remaining
\* packages, the package adds no owners, and without a parse failure the
\* Result is info with anyPackageIsNew true exactly when some touched
\* package's header is absent; the Result is error only on a parse failure.
C4_AbsentHeader ==
    /\ \A k \in 1..Len(headerResp) :
          HeaderAbsentAt(k) =>
              /\ anyPackageIsNew
              /\ error = <<>> \/ \E j \in 1..Len(headerResp) : HeaderThrows(j)
              /\ (pc \in {"resolved", "done"} /\ k < Len(packages)) => Len(headerResp) > k
    /\ (pc = "done" /\ headerResp # <<>>) =>
          IF \E j \in 1..Len(headerResp) : HeaderThrows(j)
          THEN result.type = "error"
          ELSE /\ result.type = "info"
               /\ Len(headerResp) = Len(packages)
               /\ result.anyPackageIsNew = (\E k \in 1..Len(headerResp) : HeaderAbsentAt(k))
               /\ Range(result.owners) = DeclaredOwners

C4_Witness ==
    /\ pc = "done"
    /\ result.type = "info"
    /\ result.anyPackageIsNew
    /\ Len(headerResp) = 3
    /\ HeaderAbsentAt(1)
    /\ headerResp[2].kind = "parsed"
    /\ result.owners # <<>>

\* What deriveStateForPR gives when the content fetches answer in file order.
InOrderOutcome ==
    LET n == Len(pr.files)
        inOrder == [i \in 1..n |->
                      Settle(pr.files[i],
                             IF NeedsContents(pr.files[i]) THEN responses[pr.files[i]]
                             ELSE Absent)]
        rejected == {i \in 1..n : inOrder[i].status = "rejected"}
        files == [i \in 1..n |-> inOrder[i].info]
        pk == getPackagesTouched(files)
    IN  IF rejected # {}
        THEN Rejected(inOrder[CHOOSE i \in rejected : \A j \in rejected : i <= j].message)
        ELSE IF Len(pk) = 0 THEN botNoPackages(pr.number)
        ELSE IF error # <<>> THEN botError(pr.number, error[1])
        ELSE [type |-> "info",
              pr_number |-> pr.number,
              author |-> pr.author,
              owners |-> allOwners,
              dangerLevel |-> getDangerLevel(files),
              authorIsOwner |-> isOwner(allOwners, pr.author),
              anyPackageIsNew |-> anyPackageIsNew,
              packages |-> pk,
              files |-> files]

\* C10: for a fixed snapshot and fixed fetch answers, every order in which the
\* content fetches complete gives the Result of the in-order run, with files in
\* file order and packages in order of first occurrence.
C10_OrderIndependent ==
    (pc = "done" /\ ~PreconditionFails) => result = InOrderOutcome

\* The part of C10 that the code keeps: whenever every classification is
\* fulfilled, the Result is that of the in-order run.
C10_OrderIndependentWhenFulfilled ==
    (pc = "done" /\ ~PreconditionFails /\ result.type # "exception") =>
        result = InOrderOutcome

(***************************************************************************)
(* getDangerLevel on bounded lists of classified files (SpecDanger)        *)
(***************************************************************************)
PackageKinds == {"test", "definition", "markdown", "package-meta", "package-meta-ok"}

\* The FileInfos categorizeFile can produce for the packages foo and bar.
FileInfos ==
    {FileInfo(<<"notes.txt">>, "infrastructure", Null)}
        \cup {FileInfo(<<"types", p, k>>, k, p) : p \in {"foo", "bar"}, k \in PackageKinds}

PureIdle ==
    /\ responses = <<>>
    /\ pending = {}
    /\ settled = <<>>
    /\ fetchLog = <<>>
    /\ ownerIdx = 1
    /\ headerResp = <<>>
    /\ anyPackageIsNew = FALSE
    /\ error = <<>>
    /\ now = 0

InitDanger ==
    /\ pr = Snapshot(TRUE, "bob", <<Commit(HeadOid, HeadAbbrOid, 0)>>, "OPEN", FALSE,
                     <<>>, <<>>, <<>>)
    /\ categorizedFiles \in SeqsUpTo(FileInfos, MaxFiles)
    /\ packages = <<>>
    /\ allOwners = <<>>
    /\ downloads = <<>>
    /\ pc = "danger"
    /\ result = NoResult
    /\ PureIdle

ClassifyDanger ==
    /\ pc = "danger"
    /\ result' = [type |-> "dangerLevel", dangerLevel |-> getDangerLevel(categorizedFiles)]
    /\ pc' = "done"
    /\ UNCHANGED <<pr, responses, pending, settled, fetchLog, categorizedFiles, packages,
                   ownerIdx, headerResp, allOwners, anyPackageIsNew, error, downloads, now>>

NextDanger == ClassifyDanger

SpecDanger == InitDanger /\ [][NextDanger]_vars

HasKind(kind) == \E i \in 1..Len(categorizedFiles) : categorizedFiles[i].kind = kind

DistinctPackages == {categorizedFiles[i].package : i \in 1..Len(categorizedFiles)} \ {Null}

\* C7: getDangerLevel is the first match of: an infrastructure file ->
\* Infrastructure; no package -> Infrastructure; several packages ->
\* MultiplePackagesEdited; a package-meta file -> ScopedAndConfiguration; a
\* test file -> ScopedAndTested; else ScopedAndUntested.  package-meta-ok
\* files never give ScopedAndConfiguration.
C7_DangerOrder ==
    pc = "done" =>
        /\ result.dangerLevel =
              CASE HasKind("infrastructure")         -> "Infrastructure"
                [] OTHER ->
              CASE DistinctPackages = {}             -> "Infrastructure"
                [] OTHER ->
              CASE Cardinality(DistinctPackages) > 1 -> "MultiplePackagesEdited"
                [] OTHER ->
              CASE HasKind("package-meta")           -> "ScopedAndConfiguration"
                [] OTHER ->
              CASE HasKind("test")                   -> "ScopedAndTested"
                [] OTHER                             -> "ScopedAndUntested"
        /\ (HasKind("infrastructure") /\ HasKind("test")) =>
              result.dangerLevel = "Infrastructure"
        /\ (~HasKind("infrastructure") /\ DistinctPackages = {"foo", "bar"}) =>
              result.dangerLevel = "MultiplePackagesEdited"
        /\ ~HasKind("package-meta") => result.dangerLevel # "ScopedAndConfiguration"

C7_Witness ==
    /\ pc = "done"
    /\ HasKind("package-meta-ok")
    /\ HasKind("test")
    /\ HasKind("definition")
    /\ result.dangerLevel = "ScopedAndTested"

(***************************************************************************)
(* getPopularityLevel / getPopularityLevelFromDownloads (SpecPop)          *)
(***************************************************************************)
CriticalPopularityThreshold == 5000000

NormalPopularityThreshold == 200000

getPopularityLevel_Inclusive(packagesTouched, counts, popularityLevel) ==
    IF \E i \in 1..Len(packagesTouched) :
            counts[packagesTouched[i]] >= CriticalPopularityThreshold
    THEN "Critical"
    ELSE IF \E i \in 1..Len(packagesTouched) :
                 counts[packagesTouched[i]] >= NormalPopularityThreshold
    THEN "Popular"
    ELSE popularityLevel

\* getPopularityLevel: the loop from `popularityLevel` over packagesTouched,
\* getMonthlyDownloadCount(p) being counts[p].
RECURSIVE getPopularityLevel(_, _, _)
getPopularityLevel(packagesTouched, counts, popularityLevel) ==
    IF packagesTouched = <<>> THEN popularityLevel
    ELSE LET count == counts[Head(packagesTouched)]
         IN  IF count > CriticalPopularityThreshold THEN "Critical"
             ELSE IF count > NormalPopularityThreshold
                  THEN getPopularityLevel(Tail(packagesTouched), counts, "Popular")
             ELSE getPopularityLevel(Tail(packagesTouched), counts, popularityLevel)

\* getPopularityLevelFromDownloads: the for-in loop from `popularityLevel`
\* over the record's entries <<packageName, downloads>> in key order.
RECURSIVE getPopularityLevelFromDownloads(_, _)
getPopularityLevelFromDownloads(downloadsPerPackage, popularityLevel) ==
    IF downloadsPerPackage = <<>> THEN popularityLevel
    ELSE LET count == Head(downloadsPerPackage)[2]
         IN  IF count > CriticalPopularityThreshold THEN "Critical"
             ELSE IF count > NormalPopularityThreshold
                  THEN getPopularityLevelFromDownloads(Tail(downloadsPerPackage), "Popular")
             ELSE getPopularityLevelFromDownloads(Tail(downloadsPerPackage), popularityLevel)

PackageNames == {"foo", "bar", "baz", "qux"}

DownloadCounts ==
    { 0, NormalPopularityThreshold, NormalPopularityThreshold + 1,
      CriticalPopularityThreshold, CriticalPopularityThreshold + 1 }

\* Sequences without repetition
Distinct(s) == \A i, j \in 1..Len(s) : i # j => s[i] # s[j]

\* The download record of the batched source: one entry per package, in any
\* key order.
InitPop ==
    /\ pr = Snapshot(TRUE, "bob", <<Commit(HeadOid, HeadAbbrOid, 0)>>, "OPEN", FALSE,
                     <<>>, <<>>, <<>>)
    /\ packages \in {ps \in SeqsUpTo(PackageNames, MaxPackages) : Distinct(ps)}
    /\ downloads \in [Range(packages) -> DownloadCounts]
    /\ categorizedFiles = <<>>
    /\ allOwners = <<>>
    /\ pc = "popularity"
    /\ result = [type |-> "popularityLevel", perPackage |-> "", batched |-> "",
                 keyOrder |-> <<>>]
    /\ PureIdle

\* Line 279: await getPopularityLevel(packages)
PerPackagePopularity ==
    /\ pc = "popularity"
    /\ result.perPackage = ""
    /\ result' = [result EXCEPT
                    !.perPackage = getPopularityLevel(packages, downloads,
                                                      "Well-liked by everyone")]
    /\ UNCHANGED <<pr, pc, responses, pending, settled, fetchLog, categorizedFiles, packages,
                   ownerIdx, headerResp, allOwners, anyPackageIsNew, error, downloads, now>>

\* Line 278: getPopularityLevelFromDownloads(await getDownloads(packages))
BatchedPopularity ==
    /\ pc = "popularity"
    /\ result.batched = ""
    /\ \E order \in {ps \in [1..Len(packages) -> Range(packages)] : Distinct(ps)} :
          result' = [result EXCEPT
                       !.keyOrder = order,
                       !.batched = getPopularityLevelFromDownloads(
                                       [i \in 1..Len(order) |-> <<order[i], downloads[order[i]]>>],
                                       "Well-liked by everyone")]
    /\ UNCHANGED <<pr, pc, responses, pending, settled, fetchLog, categorizedFiles, packages,
                   ownerIdx, headerResp, allOwners, anyPackageIsNew, error, downloads, now>>

NextPop == PerPackagePopularity \/ BatchedPopularity

SpecPop == InitPop /\ [][NextPop]_vars

SomeAbove(threshold) == \E p \in Range(packages) : downloads[p] > threshold

TierOfCounts ==
    IF SomeAbove(5000000) THEN "Critical"
    ELSE IF SomeAbove(200000) THEN "Popular"
    ELSE "Well-liked by everyone"

\* C8: the popularity level is Critical iff some package has more than
\* 5,000,000 downloads, else Popular iff some package has more than 200,000,
\* else the lowest tier; it depends on the counts only, not on the order of the
\* packages or of the record's keys, and both implementations agree.
C8_PopularityTiers ==
    /\ result.perPackage # "" => result.perPackage = TierOfCounts
    /\ result.batched # "" => result.batched = TierOfCounts
    /\ (result.perPackage # "" /\ result.batched # "") => result.perPackage = result.batched

C8_Witness ==
    /\ result.perPackage = "Popular"
    /\ result.batched = "Popular"
    /\ Len(packages) = 3
    /\ result.keyOrder # packages
    /\ \E p \in Range(packages) : downloads[p] = 5000000
    /\ \E p \in Range(packages) : downloads[p] = 200000

(***************************************************************************)
(* analyzeReviews (SpecReviews)                                            *)
(***************************************************************************)
ApprovalNone == 0

ApprovalOther == 1

ApprovalOwner == 2

ApprovalMaintainer == 4

\* a | b on non-negative integers
RECURSIVE BitOr(_, _)
BitOr(a, b) ==
    IF a = 0 THEN b
    ELSE IF b = 0 THEN a
    ELSE (IF a % 2 = 1 \/ b % 2 = 1 THEN 1 ELSE 0) + 2 * BitOr(a \div 2, b \div 2)

NoCommit == [oid |-> Null, abbreviatedOid |-> Null]

HeadCommitRef == [oid |-> HeadOid, abbreviatedOid |-> HeadAbbrOid]

OldCommitRef == [oid |-> "fedcba9876543210", abbreviatedOid |-> "fedcba9"]

Review(author, commit, state, association, submittedAt, comments) ==
    [author |-> author, commit |-> commit, state |-> state,
     authorAssociation |-> association, submittedAt |-> submittedAt, comments |-> comments]

\* staleReviewAuthorsByCommit.set(key, value): a Map keeps a key's position
MapSet(map, key, value) ==
    IF \E i \in 1..Len(map) : map[i].reviewedAbbrOid = key
    THEN [i \in 1..Len(map) |->
            IF map[i].reviewedAbbrOid = key
            THEN [reviewedAbbrOid |-> key, reviewer |-> value.reviewer, date |-> value.date]
            ELSE map[i]]
    ELSE Append(map, [reviewedAbbrOid |-> key, reviewer |-> value.reviewer,
                      date |-> value.date])

ReviewLoopBody_StaleUnchecked(acc, r, p, owners) ==
    IF r.commit = NoCommit \/ r.author = Null THEN acc
    ELSE IF r.author = p.author THEN acc
    ELSE IF r.commit.oid # p.headRefOid
    THEN [acc EXCEPT !.stale = MapSet(acc.stale, r.commit.abbreviatedOid,
                                      [reviewer |-> r.author, date |-> r.submittedAt])]
    ELSE IF r.author \notin acc.hasUpToDateReview
    THEN [acc EXCEPT
            !.hasUpToDateReview = acc.hasUpToDateReview \cup {r.author},
            !.lastReviewDate =
                IF acc.lastReviewDate # <<>> /\ acc.lastReviewDate[1] > r.submittedAt
                THEN acc.lastReviewDate ELSE <<r.submittedAt>>,
            !.isChangesRequested =
                IF r.state = "CHANGES_REQUESTED" THEN TRUE ELSE acc.isChangesRequested,
            !.approvalFlags =
                IF r.state = "APPROVED"
                THEN IF r.authorAssociation \in {"MEMBER", "OWNER"}
                     THEN BitOr(acc.approvalFlags, ApprovalMaintainer)
                     ELSE IF isOwner(owners, r.author)
                     THEN BitOr(acc.approvalFlags, ApprovalOwner)
                     ELSE BitOr(acc.approvalFlags, ApprovalOther)
                ELSE acc.approvalFlags]
    ELSE acc

ReviewLoopBody_SelfCounts(acc, r, p, owners) ==
    IF r.commit = NoCommit \/ r.author = Null THEN acc
    ELSE IF r.commit.oid # p.headRefOid
    THEN IF r.author \notin acc.hasUpToDateReview
         THEN [acc EXCEPT !.stale = MapSet(acc.stale, r.commit.abbreviatedOid,
                                           [reviewer |-> r.author, date |-> r.submittedAt])]
         ELSE acc
    ELSE IF r.author \notin acc.hasUpToDateReview
    THEN [acc EXCEPT
            !.hasUpToDateReview = acc.hasUpToDateReview \cup {r.author},
            !.lastReviewDate =
                IF acc.lastReviewDate # <<>> /\ acc.lastReviewDate[1] > r.submittedAt
                THEN acc.lastReviewDate ELSE <<r.submittedAt>>,
            !.isChangesRequested =
                IF r.state = "CHANGES_REQUESTED" THEN TRUE ELSE acc.isChangesRequested,
            !.approvalFlags =
                IF r.state = "APPROVED"
                THEN IF r.authorAssociation \in {"MEMBER", "OWNER"}
                     THEN BitOr(acc.approvalFlags, ApprovalMaintainer)
                     ELSE IF isOwner(owners, r.author)
                     THEN BitOr(acc.approvalFlags, ApprovalOwner)
                     ELSE BitOr(acc.approvalFlags, ApprovalOther)
                ELSE acc.approvalFlags]
    ELSE acc

ReviewLoopBody_EveryHeadReviewCounts(acc, r, p, owners) ==
    IF r.commit = NoCommit \/ r.author = Null THEN acc
    ELSE IF r.author = p.author THEN acc
    ELSE IF r.commit.oid # p.headRefOid
    THEN IF r.author \notin acc.hasUpToDateReview
         THEN [acc EXCEPT !.stale = MapSet(acc.stale, r.commit.abbreviatedOid,
                                           [reviewer |-> r.author, date |-> r.submittedAt])]
         ELSE acc
    ELSE [acc EXCEPT
            !.hasUpToDateReview = acc.hasUpToDateReview \cup {r.author},
            !.lastReviewDate =
                IF acc.lastReviewDate # <<>> /\ acc.lastReviewDate[1] > r.submittedAt
                THEN acc.lastReviewDate ELSE <<r.submittedAt>>,
            !.isChangesRequested =
                IF r.state = "CHANGES_REQUESTED" THEN TRUE ELSE acc.isChangesRequested,
            !.approvalFlags =
                IF r.state = "APPROVED"
                THEN IF r.authorAssociation \in {"MEMBER", "OWNER"}
                     THEN BitOr(acc.approvalFlags, ApprovalMaintainer)
                     ELSE IF isOwner(owners, r.author)
                     THEN BitOr(acc.approvalFlags, ApprovalOwner)
                     ELSE BitOr(acc.approvalFlags, ApprovalOther)
                ELSE acc.approvalFlags]

\* Lines 440-469: the body of the loop over the reversed reviews, on review r
\* with the loop's variables acc.
ReviewLoopBody(acc, r, p, owners) ==
    IF r.commit = NoCommit \/ r.author = Null THEN acc
    ELSE IF r.author = p.author THEN acc
    ELSE IF r.commit.oid # p.headRefOid
    THEN IF r.author \notin acc.hasUpToDateReview
         THEN [acc EXCEPT !.stale = MapSet(acc.stale, r.commit.abbreviatedOid,
                                           [reviewer |-> r.author, date |-> r.submittedAt])]
         ELSE acc
    ELSE IF r.author \notin acc.hasUpToDateReview
    THEN [acc EXCEPT
            !.hasUpToDateReview = acc.hasUpToDateReview \cup {r.author},
            !.lastReviewDate =
                IF acc.lastReviewDate # <<>> /\ acc.lastReviewDate[1] > r.submittedAt
                THEN acc.lastReviewDate ELSE <<r.submittedAt>>,
            !.isChangesRequested =
                IF r.state = "CHANGES_REQUESTED" THEN TRUE ELSE acc.isChangesRequested,
            !.approvalFlags =
                IF r.state = "APPROVED"
                THEN IF r.authorAssociation \in {"MEMBER", "OWNER"}
                     THEN BitOr(acc.approvalFlags, ApprovalMaintainer)
                     ELSE IF isOwner(owners, r.author)
                     THEN BitOr(acc.approvalFlags, ApprovalOwner)
                     ELSE BitOr(acc.approvalFlags, ApprovalOther)
                ELSE acc.approvalFlags]
    ELSE acc

\* The loop over [...reviews].reverse(): the last review of `reviews` first.
RECURSIVE ReviewLoop(_, _, _, _)
ReviewLoop(acc, reviews, p, owners) ==
    IF reviews = <<>> THEN acc
    ELSE ReviewLoop(ReviewLoopBody(acc, Last(reviews), p, owners),
                    SubSeq(reviews, 1, Len(reviews) - 1), p, owners)

\* analyzeReviews(prInfo, isOwner); lastReviewDate is <<>> when undefined.
analyzeReviews(p, owners) ==
    LET acc == ReviewLoop([hasUpToDateReview |-> {}, stale |-> <<>>,
                           lastReviewDate |-> <<>>, isChangesRequested |-> FALSE,
                           approvalFlags |-> ApprovalNone],
                          p.reviews, p, owners)
    IN  [lastReviewDate |-> acc.lastReviewDate,
         reviewersWithStaleReviews |-> acc.stale,
         approvalFlags |-> acc.approvalFlags,
         isChangesRequested |-> acc.isChangesRequested]

\* The reviews of the logs: the PR's author bob, the package owner carol and
\* the outsider dave, on the head commit or an older one; a review without an
\* author and one without a commit.
ReviewShapes ==
    { Review(a, c, sa[1], sa[2], 0, <<>>) :
        a \in {"bob", "carol", "dave"},
        c \in {HeadCommitRef, OldCommitRef},
        sa \in { <<"APPROVED", "MEMBER">>, <<"APPROVED", "CONTRIBUTOR">>,
                 <<"CHANGES_REQUESTED", "CONTRIBUTOR">>, <<"COMMENTED", "CONTRIBUTOR">> } }
      \cup { Review(Null, HeadCommitRef, "APPROVED", "MEMBER", 0, <<>>),
             Review("carol", NoCommit, "APPROVED", "MEMBER", 0, <<>>),
             Review("dave", HeadCommitRef, "APPROVED", "OWNER", 0, <<>>) }

\* A review log, oldest first: review i is submitted at time i.
InitReviews ==
    /\ \E shapes \in SeqsUpTo(ReviewShapes, MaxReviews) :
          pr = Snapshot(TRUE, "bob", <<Commit(HeadOid, HeadAbbrOid, 0)>>, "OPEN", FALSE, <<>>,
                        [i \in 1..Len(shapes) |-> [shapes[i] EXCEPT !.submittedAt = i]],
                        <<>>)
    /\ allOwners = <<"Carol">>
    /\ categorizedFiles = <<>>
    /\ packages = <<>>
    /\ downloads = <<>>
    /\ pc = "reviews"
    /\ result = NoResult
    /\ PureIdle

\* Line 255: analyzeReviews(prInfo, isOwner)
AnalyzeReviews ==
    /\ pc = "reviews"
    /\ result' = [type |-> "reviewAnalysis", analysis |-> analyzeReviews(pr, allOwners)]
    /\ pc' = "done"
    /\ UNCHANGED <<pr, responses, pending, settled, fetchLog, categorizedFiles, packages,
                   ownerIdx, headerResp, allOwners, anyPackageIsNew, error, downloads, now>>

NextReviews == AnalyzeReviews

SpecReviews == InitReviews /\ [][NextReviews]_vars

StaleReviews == result.analysis.reviewersWithStaleReviews

ReviewsBy(login) == {i \in 1..Len(pr.reviews) : pr.reviews[i].author = login}

TargetsHead(i) == pr.reviews[i].commit.oid = pr.headRefOid

MostRecentTargetsHead(login) ==
    /\ ReviewsBy(login) # {}
    /\ \E i \in ReviewsBy(login) : TargetsHead(i) /\ \A j \in ReviewsBy(login) : j <= i

\* C5: a reviewer whose most recent review targets the head commit is in no
\* entry of reviewersWithStaleReviews, and every entry comes from a review of
\* its reviewer on that non-head commit with no later review by the same
\* reviewer on the head commit.
C5_StaleNotSuperseded ==
    pc = "done" =>
        /\ \A k \in 1..Len(StaleReviews) :
              ~MostRecentTargetsHead(StaleReviews[k].reviewer)
        /\ \A k \in 1..Len(StaleReviews) :
              \E i \in ReviewsBy(StaleReviews[k].reviewer) :
                  /\ pr.reviews[i].commit.abbreviatedOid = StaleReviews[k].reviewedAbbrOid
                  /\ pr.reviews[i].submittedAt = StaleReviews[k].date
                  /\ ~TargetsHead(i)
                  /\ \A j \in ReviewsBy(StaleReviews[k].reviewer) : j > i => ~TargetsHead(j)

C5_Witness ==
    /\ pc = "done"
    /\ Len(pr.reviews) = 3
    /\ pr.reviews[1].author = "dave" /\ ~TargetsHead(1)
    /\ pr.reviews[2].author = "carol" /\ ~TargetsHead(2) /\ pr.reviews[2].commit # NoCommit
    /\ pr.reviews[3].author = "carol" /\ TargetsHead(3)
    /\ Len(StaleReviews) = 1
    /\ StaleReviews[1].reviewer = "dave"

IsSelfReview(r) == r.author = pr.author

\* C6: self-reviews take no part in the analysis: the analysis of a log is
\* that of the log without its self-reviews, and a log of self-reviews only
\* gives approvalFlags None, isChangesRequested false, no lastReviewDate and no
\* stale entry.
C6_SelfReviewsExcluded ==
    pc = "done" =>
        /\ result.analysis =
              analyzeReviews([pr EXCEPT !.reviews =
                                SelectSeq(pr.reviews, LAMBDA r : ~IsSelfReview(r))],
                             allOwners)
        /\ \A k \in 1..Len(StaleReviews) : StaleReviews[k].reviewer # pr.author
        /\ (\A i \in 1..Len(pr.reviews) : IsSelfReview(pr.reviews[i])) =>
              /\ result.analysis.approvalFlags = 0
              /\ result.analysis.isChangesRequested = FALSE
              /\ result.analysis.lastReviewDate = <<>>
              /\ result.analysis.reviewersWithStaleReviews = <<>>

C6_Witness ==
    /\ pc = "done"
    /\ Len(pr.reviews) = 3
    /\ \A i \in 1..3 : IsSelfReview(pr.reviews[i])
    /\ pr.reviews[1].state = "APPROVED" /\ TargetsHead(1)
    /\ pr.reviews[2].state = "CHANGES_REQUESTED" /\ TargetsHead(2)
    /\ ~TargetsHead(3)
    /\ result.analysis.approvalFlags = 0

(***************************************************************************)
(* Dates and stalenessInDays (SpecStale).  Times count half days.          *)
(***************************************************************************)
\* util: the whole days from date to now
daysSince(date, nowTime) == (nowTime - date) \div 2

\* util: whether the item's author is not the bot account
authorNotBot(item) == item.author # "typescript-bot"

\* util: the last element of arr among those at the indices `hits` (the ones
\* passing the test), <<>> when there is none
findLast(arr, hits) ==
    IF hits = {} THEN <<>>
    ELSE <<arr[CHOOSE i \in hits : \A j \in hits : j <= i]>>

\* util: the first defined one of the action's results, from the last
\* backwards; <<>> when there is none
forEachReverse(results) ==
    LET hits == {i \in 1..Len(results) : results[i] # <<>>}
    IN  IF hits = {} THEN <<>>
        ELSE results[CHOOSE i \in hits : \A j \in hits : j <= i]

TimelineItem(typename, author, createdAt) ==
    [typename |-> typename, author |-> author, createdAt |-> createdAt]

\* getReopenedDate: <<>> when undefined
getReopenedDate(timelineItems) ==
    LET lastItem ==
            findLast(timelineItems,
                     {i \in 1..Len(timelineItems) :
                        timelineItems[i].typename \in {"ReopenedEvent", "ReadyForReviewEvent"}})
    IN  IF lastItem = <<>> THEN <<>> ELSE <<lastItem[1].createdAt>>

\* getLastCommentishActivityDate: <<>> when undefined
getLastCommentishActivityDate(timelineItems, reviews) ==
    LET lastIssueComment ==
            findLast(timelineItems,
                     {i \in 1..Len(timelineItems) :
                        /\ timelineItems[i].typename = "IssueComment"
                        /\ authorNotBot(timelineItems[i])})
        lastReviewComment ==
            forEachReverse([k \in 1..Len(reviews) |->
                              findLast(reviews[k].comments,
                                       {i \in 1..Len(reviews[k].comments) :
                                          reviews[k].comments[i].author # Null})])
    IN  IF lastIssueComment # <<>> /\ lastReviewComment # <<>>
        THEN IF lastIssueComment[1].createdAt >= lastReviewComment[1].createdAt
             THEN <<lastIssueComment[1].createdAt>>
             ELSE <<lastReviewComment[1].createdAt>>
        ELSE IF lastIssueComment # <<>> THEN <<lastIssueComment[1].createdAt>>
        ELSE IF lastReviewComment # <<>> THEN <<lastReviewComment[1].createdAt>>
        ELSE <<>>

\* Math.min(...dates)
MinOf(values) == CHOOSE v \in values : \A w \in values : v <= w

OrElse(date, fallback) == IF date = <<>> THEN fallback ELSE date[1]

stalenessInDays_ReviewIgnored(lastPushDate, lastCommentDate, reopenedDate, lastReviewDate, nowTime) ==
    MinOf({ daysSince(lastPushDate, nowTime),
            daysSince(lastCommentDate, nowTime),
            daysSince(OrElse(reopenedDate, lastPushDate), nowTime) })

\* Lines 269-270
stalenessInDays(lastPushDate, lastCommentDate, reopenedDate, lastReviewDate, nowTime) ==
    MinOf({ daysSince(OrElse(d, lastPushDate), nowTime) :
              d \in {<<lastPushDate>>, <<lastCommentDate>>, reopenedDate, lastReviewDate} })

\* Lines 251-255 and 269-271: the dates of the info Result
DerivedDates(p, owners, nowTime) ==
    LET headCommit == getHeadCommit(p)[1]
        lastPushDate == headCommit.pushedDate
        lastCommentDate ==
            OrElse(getLastCommentishActivityDate(p.timelineItems, p.reviews), lastPushDate)
        reopenedDate == getReopenedDate(p.timelineItems)
        reviewAnalysis == analyzeReviews(p, owners)
    IN  [type |-> "dates",
         stalenessInDays |-> stalenessInDays(lastPushDate, lastCommentDate, reopenedDate,
                                             reviewAnalysis.lastReviewDate, nowTime),
         lastPushDate |-> lastPushDate,
         reopenedDate |-> reopenedDate,
         lastCommentDate |-> lastCommentDate,
         lastReviewDate |-> reviewAnalysis.lastReviewDate]

TimelineShapes ==
    { TimelineItem(ta[1], ta[2], t) :
        ta \in { <<"IssueComment", "carol">>, <<"IssueComment", "typescript-bot">>,
                 <<"ReopenedEvent", "carol">>, <<"ReadyForReviewEvent", "bob">>,
                 <<"MovedColumnsInProjectEvent", "carol">> },
        t \in {0, 3} }

ReviewComment(author, createdAt) == [author |-> author, createdAt |-> createdAt]

DatedReviewShapes ==
    { Review(a, c, "COMMENTED", "CONTRIBUTOR", 3, cs) :
        a \in {"bob", "carol"},
        c \in {HeadCommitRef, OldCommitRef},
        cs \in { <<>>, <<ReviewComment("carol", 4)>>, <<ReviewComment(Null, 4)>> } }

InitStale ==
    /\ pr \in { Snapshot(TRUE, "bob", <<Commit(HeadOid, HeadAbbrOid, pushed)>>, "OPEN", FALSE,
                         <<>>, rs, tl) :
                  pushed \in {1, 2},
                  rs \in SeqsUpTo(DatedReviewShapes, MaxDatedReviews),
                  tl \in SeqsUpTo(TimelineShapes, MaxTimeline) }
    /\ now \in {4, 5}
    /\ allOwners = <<"Carol">>
    /\ categorizedFiles = <<>>
    /\ packages = <<>>
    /\ downloads = <<>>
    /\ pc = "dates"
    /\ result = NoResult
    /\ responses = <<>>
    /\ pending = {}
    /\ settled = <<>>
    /\ fetchLog = <<>>
    /\ ownerIdx = 1
    /\ headerResp = <<>>
    /\ anyPackageIsNew = FALSE
    /\ error = <<>>

DeriveDates ==
    /\ pc = "dates"
    /\ result' = DerivedDates(pr, allOwners, now)
    /\ pc' = "done"
    /\ UNCHANGED <<pr, responses, pending, settled, fetchLog, categorizedFiles, packages,
                   ownerIdx, headerResp, allOwners, anyPackageIsNew, error, downloads, now>>

NextStale == DeriveDates

SpecStale == InitStale /\ [][NextStale]_vars

PushedDate == pr.commits[1].pushedDate

NoCommentActivity ==
    /\ \A i \in 1..Len(pr.timelineItems) :
          ~(pr.timelineItems[i].typename = "IssueComment"
              /\ pr.timelineItems[i].author # "typescript-bot")
    /\ \A i \in 1..Len(pr.reviews) :
          \A j \in 1..Len(pr.reviews[i].comments) : pr.reviews[i].comments[j].author = Null

NoReopenEvent ==
    \A i \in 1..Len(pr.timelineItems) :
        pr.timelineItems[i].typename \notin {"ReopenedEvent", "ReadyForReviewEvent"}

NoHeadReview == \A i \in 1..Len(pr.reviews) : ~TargetsHead(i)

\* C9: stalenessInDays is the least of the days since lastPushDate,
\* lastCommentDate, reopenedDate and lastReviewDate, a missing reopenedDate or
\* lastReviewDate counting as lastPushDate and lastCommentDate being
\* lastPushDate without comment-like activity; so it never exceeds the days
\* since the last push and equals them without comments, reopen events and
\* head-commit reviews.
C9_Staleness ==
    pc = "done" =>
        LET push == result.lastPushDate
            reopened == IF result.reopenedDate = <<>> THEN push ELSE result.reopenedDate[1]
            reviewed == IF result.lastReviewDate = <<>> THEN push
                        ELSE result.lastReviewDate[1]
            days == {daysSince(d, now) : d \in {push, result.lastCommentDate, reopened, reviewed}}
        IN  /\ push = PushedDate
            /\ result.stalenessInDays \in days
            /\ \A d \in days : result.stalenessInDays <= d
            /\ NoCommentActivity => result.lastCommentDate = push
            /\ NoReopenEvent => result.reopenedDate = <<>>
            /\ NoHeadReview => result.lastReviewDate = <<>>
            /\ result.stalenessInDays <= daysSince(push, now)
            /\ (NoCommentActivity /\ NoReopenEvent /\ NoHeadReview) =>
                  result.stalenessInDays = daysSince(PushedDate, now)

C9_Witness ==
    /\ pc = "done"
    /\ result.lastReviewDate = <<3>>
    /\ result.reopenedDate = <<0>>
    /\ result.lastCommentDate = 0
    /\ result.lastPushDate = 1
    /\ result.stalenessInDays = 0
    /\ daysSince(result.lastPushDate, now) = 1

(***************************************************************************)
(* Further claims about analyzeReviews (SpecReviews)                       *)
(***************************************************************************)
\* The reviews that can be recorded as stale for the commit abbreviated
\* `abbr`: not null, not a self-review, on that non-head commit, by a reviewer
\* with no later review of the head commit.
StaleCandidates(abbr) ==
    {i \in 1..Len(pr.reviews) :
        /\ pr.reviews[i].author # Null
        /\ pr.reviews[i].commit # NoCommit
        /\ ~IsSelfReview(pr.reviews[i])
        /\ ~TargetsHead(i)
        /\ pr.reviews[i].commit.abbreviatedOid = abbr
        /\ \A j \in ReviewsBy(pr.reviews[i].author) : j > i => ~TargetsHead(j)}

StaleEntryFor(abbr) ==
    {k \in 1..Len(StaleReviews) : StaleReviews[k].reviewedAbbrOid = abbr}

\* C11: of several stale reviews recorded for one non-head commit, the entry
\* kept in reviewersWithStaleReviews is the most recent (its reviewer and
\* date); an older review on that commit never replaces it.
C11_MostRecentStaleKept ==
    pc = "done" =>
        \A abbr \in {OldCommitRef.abbreviatedOid} :
            StaleCandidates(abbr) # {} =>
                LET latest == CHOOSE i \in StaleCandidates(abbr) :
                                  \A j \in StaleCandidates(abbr) : j <= i
                IN  \E k \in StaleEntryFor(abbr) :
                        /\ StaleReviews[k].reviewer = pr.reviews[latest].author
                        /\ StaleReviews[k].date = pr.reviews[latest].submittedAt

\* What the code does: Map.set replaces the value of a commit already
\* recorded, so the entry left is that of the oldest such review.
C11_OldestStaleKept ==
    pc = "done" =>
        \A abbr \in {OldCommitRef.abbreviatedOid} :
            /\ Cardinality(StaleEntryFor(abbr)) <= 1
            /\ StaleCandidates(abbr) = {} <=> StaleEntryFor(abbr) = {}
            /\ StaleCandidates(abbr) # {} =>
                  LET oldest == CHOOSE i \in StaleCandidates(abbr) :
                                    \A j \in StaleCandidates(abbr) : i <= j
                  IN  \E k \in StaleEntryFor(abbr) :
                          /\ StaleReviews[k].reviewer = pr.reviews[oldest].author
                          /\ StaleReviews[k].date = pr.reviews[oldest].submittedAt

\* The reviewers of the log other than the PR's author
Reviewers ==
    {pr.reviews[i].author : i \in 1..Len(pr.reviews)} \ {Null, pr.author}

HeadReviewsBy(login) ==
    {i \in ReviewsBy(login) : pr.reviews[i].commit # NoCommit /\ TargetsHead(i)}

\* The reviews that are their reviewer's most recent one on the head commit
CurrentReviews ==
    {i \in 1..Len(pr.reviews) :
        /\ pr.reviews[i].author \in Reviewers
        /\ i \in HeadReviewsBy(pr.reviews[i].author)
        /\ \A j \in HeadReviewsBy(pr.reviews[i].author) : j <= i}

CurrentApprovals == {i \in CurrentReviews : pr.reviews[i].state = "APPROVED"}

ByMaintainer(i) == pr.reviews[i].authorAssociation \in {"MEMBER", "OWNER"}

InOwnerSet(login) ==
    \E k \in 1..Len(allOwners) : ToLowerCase(allOwners[k]) = ToLowerCase(login)

\* C12: isChangesRequested holds iff some non-self reviewer's most recent
\* head-commit review is CHANGES_REQUESTED, and approvalFlags is the OR over
\* the non-self reviewers whose most recent head-commit review is APPROVED of
\* Maintainer (association MEMBER or OWNER), else Owner (reviewer among the
\* resolved owners), else Other; earlier head-commit reviews add nothing.
C12_CurrentReviewsOnly ==
    pc = "done" =>
        /\ result.analysis.isChangesRequested
              = (\E i \in CurrentReviews : pr.reviews[i].state = "CHANGES_REQUESTED")
        /\ result.analysis.approvalFlags
              = (IF \E i \in CurrentApprovals : ByMaintainer(i) THEN 4 ELSE 0)
                + (IF \E i \in CurrentApprovals :
                         ~ByMaintainer(i) /\ InOwnerSet(pr.reviews[i].author)
                   THEN 2 ELSE 0)
                + (IF \E i \in CurrentApprovals :
                         ~ByMaintainer(i) /\ ~InOwnerSet(pr.reviews[i].author)
                   THEN 1 ELSE 0)

C12_Witness ==
    /\ pc = "done"
    /\ Len(pr.reviews) = 3
    /\ pr.reviews[1].author = "carol" /\ TargetsHead(1)
    /\ pr.reviews[1].state = "APPROVED" /\ ~ByMaintainer(1)
    /\ pr.reviews[2].author = "carol" /\ TargetsHead(2)
    /\ pr.reviews[2].state = "CHANGES_REQUESTED"
    /\ pr.reviews[3].author = "dave" /\ TargetsHead(3)
    /\ pr.reviews[3].state = "APPROVED" /\ ~ByMaintainer(3)
    /\ result.analysis.isChangesRequested
    /\ result.analysis.approvalFlags = 1

(***************************************************************************)
(* getCIResult (SpecCI)                                                    *)
(***************************************************************************)
\* util/CIResult: the members of the enum, all truthy values
CIPass == "pass"

CIFail == "fail"

CIPending == "pending"

CIMissing == "missing"

Undefined == "undefined"

CheckSuite(appName, conclusion, url) ==
    [app |-> appName, conclusion |-> conclusion, url |-> url]

\* check?.app?.name?.includes("GitHub Actions") on the app names of the
\* model; Null is a suite without app or name
IncludesGitHubActions(appName) ==
    appName \in {"GitHub Actions", "Self-hosted GitHub Actions"}

getCIResult_SkippedPending(headCommit) ==
    LET found == {i \in 1..Len(headCommit.checkSuites) :
                     IncludesGitHubActions(headCommit.checkSuites[i].app)}
        ciResult ==
            IF found = {} THEN Undefined
            ELSE LET totalStatusChecks ==
                         headCommit.checkSuites[CHOOSE i \in found : \A j \in found : i <= j]
                 IN  CASE totalStatusChecks.conclusion = "SUCCESS" -> CIPass
                       [] totalStatusChecks.conclusion \in {"FAILURE", "TIMED_OUT"} -> CIFail
                       [] OTHER -> CIPending
        ciUrl ==
            IF found = {} THEN Null
            ELSE LET totalStatusChecks ==
                         headCommit.checkSuites[CHOOSE i \in found : \A j \in found : i <= j]
                 IN  IF totalStatusChecks.conclusion \in {"FAILURE", "TIMED_OUT"}
                     THEN totalStatusChecks.url ELSE Null
    IN  IF ciResult = Undefined
        THEN [ciResult |-> CIMissing, ciUrl |-> Null]
        ELSE [ciResult |-> ciResult, ciUrl |-> ciUrl]

\* getCIResult: find() takes the first suite of the head commit whose app name
\* includes "GitHub Actions"; ciUrl is Null when undefined.
getCIResult(headCommit) ==
    LET found == {i \in 1..Len(headCommit.checkSuites) :
                     IncludesGitHubActions(headCommit.checkSuites[i].app)}
        ciResult ==
            IF found = {} THEN Undefined
            ELSE LET totalStatusChecks ==
                         headCommit.checkSuites[CHOOSE i \in found : \A j \in found : i <= j]
                 IN  CASE totalStatusChecks.conclusion = "SUCCESS" -> CIPass
                       [] totalStatusChecks.conclusion \in {"FAILURE", "SKIPPED", "TIMED_OUT"}
                            -> CIFail
                       [] OTHER -> CIPending
        ciUrl ==
            IF found = {} THEN Null
            ELSE LET totalStatusChecks ==
                         headCommit.checkSuites[CHOOSE i \in found : \A j \in found : i <= j]
                 IN  IF totalStatusChecks.conclusion \in {"FAILURE", "SKIPPED", "TIMED_OUT"}
                     THEN totalStatusChecks.url ELSE Null
    IN  IF ciResult = Undefined
        THEN [ciResult |-> CIMissing, ciUrl |-> Null]
        ELSE [ciResult |-> ciResult, ciUrl |-> ciUrl]

\* The check suites of the logs: GitHub Actions under two names, another CI
\* app and a suite without app, with every kind of conclusion (Null: none).
CheckSuiteShapes ==
    { CheckSuite(a, c, u) :
        a \in {"GitHub Actions", "Self-hosted GitHub Actions", "Travis CI", Null},
        c \in {"SUCCESS", "FAILURE", "SKIPPED", "TIMED_OUT", "CANCELLED",
               "ACTION_REQUIRED", Null},
        u \in {"https://checks/1", "https://checks/2"} }

InitCI ==
    /\ \E suites \in SeqsUpTo(CheckSuiteShapes, MaxSuites) :
          pr = Snapshot(TRUE, "bob",
                        <<Commit(HeadOid, HeadAbbrOid, 0) @@ [checkSuites |-> suites]>>,
                        "OPEN", FALSE, <<>>, <<>>, <<>>)
    /\ allOwners = <<>>
    /\ categorizedFiles = <<>>
    /\ packages = <<>>
    /\ downloads = <<>>
    /\ pc = "ci"
    /\ result = NoResult
    /\ PureIdle

\* deriveStateForPR: ...getCIResult(headCommit)
ExtractCI ==
    /\ pc = "ci"
    /\ result' = [type |-> "ci"] @@ getCIResult(getHeadCommit(pr)[1])
    /\ pc' = "done"
    /\ UNCHANGED <<pr, responses, pending, settled, fetchLog, categorizedFiles, packages,
                   ownerIdx, headerResp, allOwners, anyPackageIsNew, error, downloads, now>>

NextCI == ExtractCI

SpecCI == InitCI /\ [][NextCI]_vars

Suites == pr.commits[1].checkSuites

ActionsSuites == {i \in 1..Len(Suites) : Suites[i].app \in {"GitHub Actions",
                                                            "Self-hosted GitHub Actions"}}

\* C13: ciResult is Missing iff the head commit has no check suite whose app
\* name contains "GitHub Actions"; otherwise the (first such) suite's
\* conclusion decides: SUCCESS -> Pass; FAILURE, SKIPPED, TIMED_OUT -> Fail;
\* anything else, none included -> Pending.  ciUrl is that suite's URL when
\* ciResult is Fail and undefined otherwise.
C13_CIResult ==
    pc = "done" =>
        /\ result.ciResult = "missing" <=> ActionsSuites = {}
        /\ ActionsSuites # {} =>
              LET suite == Suites[CHOOSE i \in ActionsSuites : \A j \in ActionsSuites : i <= j]
              IN  /\ suite.conclusion = "SUCCESS" => result.ciResult = "pass"
                  /\ suite.conclusion \in {"FAILURE", "SKIPPED", "TIMED_OUT"} =>
                        result.ciResult = "fail" /\ result.ciUrl = suite.url
                  /\ suite.conclusion \notin {"SUCCESS", "FAILURE", "SKIPPED", "TIMED_OUT"} =>
                        result.ciResult = "pending"
        /\ result.ciResult \in {"pass", "pending", "missing"} => result.ciUrl = Null
        /\ result.ciResult \in {"pass", "fail", "pending", "missing"}

C13_Witness ==
    /\ pc = "done"
    /\ Len(Suites) = 2
    /\ Suites[1].app = "Travis CI" /\ Suites[1].conclusion = "SUCCESS"
    /\ Suites[2].app = "Self-hosted GitHub Actions" /\ Suites[2].conclusion = "SKIPPED"
    /\ Suites[1].url # Suites[2].url
    /\ result.ciResult = "fail"
    /\ result.ciUrl = Suites[2].url

====
